---- MODULE Spec2Model ----
(***************************************************************************)
(* Model of sceptre/helpers.py: the decorator recurse_into_sub_stack_groups *)
(* (a command invoked on a StackGroup is run on every sub-stack_group on a  *)
(* thread of a ThreadPoolExecutor, the responses are merged as the futures  *)
(* complete, then the StackGroup's own func is run and merged).             *)
(*                                                                         *)
(* A StackGroup is a number 1..n, 1 is the one the caller invokes the      *)
(* command on.  A response is a record [kind, map]: kind "map" is a        *)
(* dictionary (map: key -> value), kind "none" is None.  The keys a func   *)
(* may use are the name of its own StackGroup (its number, unique in the   *)
(* tree) and SharedKey, a key every func may use.  The value a func stores *)
(* under a key is the number of its StackGroup, so that the origin of      *)
(* every entry of a merged dictionary is visible.  The exception raised by *)
(* the func of StackGroup n is identified by n.                            *)
(*                                                                         *)
(* The module also models _call_func_on_values (specification WalkSpec)    *)
(* and get_name_tuple / get_external_stack_name (specification NameSpec);  *)
(* each specification leaves the variables of the others as they are.      *)
(***************************************************************************)
EXTENDS Integers, Sequences, FiniteSets, TLC

\* Largest number of StackGroups in a tree.
MaxGroups == 4

VARIABLES
    sub_stack_groups, \* self.sub_stack_groups of every StackGroup (a list)
    pc,               \* where the call of decorated() on each StackGroup is
    responses,        \* the local `responses` of each call of decorated()
    own,              \* the local `response` assigned at line 49 (func's result)
    processed,        \* the children whose future as_completed has yielded, in order
    err,              \* the exception propagating out of the call (0: none)
    calls,            \* how many times func was invoked on the StackGroup
    cmd,              \* function_name and args the call on each StackGroup was made with
    tasks             \* how many futures were submitted for each StackGroup

\* The variables of _call_func_on_values.
VARIABLES
    objects,          \* the dictionaries and lists, by identity
    original,         \* objects as they were when the walk began
    callback,         \* what func(attr, key, value) does
    stack,            \* the calls of _call_func_on_values in progress
    status,           \* "idle", "walking", "returned" or "recursion_error"
    visits,           \* the invocations of func, in order
    walks,            \* how many times each dictionary or list was walked
    result            \* the object the outermost call returned (0: none)

\* The variables of get_name_tuple and get_external_stack_name.
VARIABLES
    project_code,     \* the argument project_code
    stack_name,       \* the argument stack_name (and name)
    name_tuple,       \* what get_name_tuple(stack_name) returned
    external_name,    \* what get_external_stack_name returned
    computed          \* the two functions have been applied

dispatchVars == <<sub_stack_groups, pc, responses, own, processed, err, calls, cmd, tasks>>
walkVars == <<objects, original, callback, stack, status, visits, walks, result>>
nameVars == <<project_code, stack_name, name_tuple, external_name, computed>>

vars == <<dispatchVars, walkVars, nameVars>>

Groups == DOMAIN sub_stack_groups
\* A key that is not the name of a StackGroup.
SharedKey == 0
Keys == Groups \cup {SharedKey}
Root == 1

\* factory() with factory=dict: an empty dictionary.
factory == [k \in {} |-> 0]

NoneResponse == [kind |-> "none", map |-> factory]
NotRun == [kind |-> "notrun", map |-> factory]
Raised == [kind |-> "raise", map |-> factory]
Dict(m) == [kind |-> "map", map |-> m]

\* The elements of a list, as a set.
Range(s) == {s[i] : i \in DOMAIN s}

\* The ascending list of a set of numbers.
RECURSIVE SortedSeq(_)
SortedSeq(S) ==
    IF S = {} THEN <<>>
    ELSE LET m == CHOOSE x \in S : \A y \in S : x <= y
         IN <<m>> \o SortedSeq(S \ {m})

Children(n) == Range(sub_stack_groups[n])

\* n and the StackGroups below it in the tree.
RECURSIVE Subtree(_)
Subtree(n) == {n} \cup UNION {Subtree(c) : c \in Children(n)}

Descendants(n) == Subtree(n) \ {n}

\* d is below n in the tree.
IsBelow(d, n) == d \in Descendants(n)

\* The StackGroup whose sub_stack_groups has c.
Parent(c) == CHOOSE p \in Groups : c \in Children(p)

\* No call: the StackGroup's method has not been invoked.
NoCall == [function_name |-> "", args |-> <<>>]

\* The call the caller makes on the root: stack_group.do().
Command == [function_name |-> "do", args |-> <<>>]

\* The call on c has started and has not ended: it occupies a worker.
Running(c) == pc[c] \in {"waiting", "local", "exiting"}

\* Mutant of max_workers: a pool with one worker less than sub-stack_groups.
MaxWorkersOneLess(n) == Len(sub_stack_groups[n]) - 1

\* ThreadPoolExecutor(max_workers=num_stack_groups), lines 30 and 34.
max_workers(n) == Len(sub_stack_groups[n])

\* The pool of the parent of n has a worker free to start the call on n
\* (the call on the root runs on the caller's thread).
WorkerAvailable(n) ==
    IF n = Root THEN TRUE
    ELSE Cardinality({s \in Children(Parent(n)) : Running(s)}) < max_workers(Parent(n))

\* The walk and the name functions are not in use.
UtilitiesIdle ==
    /\ objects = <<>> /\ original = <<>> /\ callback = "none"
    /\ stack = <<>> /\ status = "idle" /\ visits = <<>> /\ walks = <<>>
    /\ result = 0
    /\ project_code = <<>> /\ stack_name = <<>>
    /\ name_tuple = <<>> /\ external_name = <<>> /\ computed = FALSE

\* Mutant of Truthy: no response is ever merged.
TruthyNever(response) == FALSE

\* `if response:` -- None and the empty dictionary are falsy.
Truthy(response) == response.kind = "map" /\ DOMAIN response.map # {}

\* Mutant of Update: `responses = response` instead of an update.
UpdateReplace(agg, partial) == partial

\* Mutant of Update: a key already present keeps its value (setdefault).
UpdateKeepExisting(agg, partial) ==
    [k \in DOMAIN agg \cup DOMAIN partial |->
        IF k \in DOMAIN agg THEN agg[k] ELSE partial[k]]

\* responses.update(response): the keys of response are inserted,
\* a key already present gets the new value.
Update(agg, partial) ==
    [k \in DOMAIN agg \cup DOMAIN partial |->
        IF k \in DOMAIN partial THEN partial[k] ELSE agg[k]]

\* future.done(): the call on the child has returned or raised.
Done(c) == pc[c] \in {"returned", "raised"}

\* Mutant of Merge: `if response is not None: responses = response`.
MergeAssign(agg, response) ==
    IF response.kind = "map" THEN response.map ELSE agg

\* `if response: responses.update(response)`
Merge(agg, response) ==
    IF Truthy(response) THEN Update(agg, response.map) ELSE agg

\* What func may do on StackGroup n: return None, return a dictionary
\* whose values are n, or raise.
FuncResults(n) ==
    {NoneResponse, Raised} \cup
    {Dict([k \in K |-> n]) : K \in SUBSET {n, SharedKey}}

\* The trees of at most MaxGroups StackGroups, numbered level by level in
\* the order of the sub_stack_groups lists (par[c] is the parent of c), so
\* that every shape of tree is there once.
InitTrees ==
    {[n \in 1..size |-> SortedSeq({c \in 2..size : par[c] = n})] :
        size \in 1..MaxGroups,
        par \in {q \in [2..MaxGroups -> 1..MaxGroups] :
                    /\ \A c \in 2..MaxGroups : q[c] < c
                    /\ \A c \in 2..(MaxGroups - 1) : q[c] <= q[c + 1]}}

Init ==
    /\ sub_stack_groups \in InitTrees
    /\ pc = [n \in Groups |-> IF n = Root THEN "called" ELSE "idle"]
    /\ responses = [n \in Groups |-> factory]
    /\ own = [n \in Groups |-> NotRun]
    /\ processed = [n \in Groups |-> <<>>]
    /\ err = [n \in Groups |-> 0]
    /\ calls = [n \in Groups |-> 0]
    /\ cmd = [n \in Groups |-> IF n = Root THEN Command ELSE NoCall]
    /\ tasks = [n \in Groups |-> 0]
    /\ UtilitiesIdle

\* Mutant of Begin: every sub-stack_group is submitted twice.
BeginSubmittingTwice(n) ==
    /\ pc[n] = "called"
    /\ WorkerAvailable(n)
    /\ responses' = [responses EXCEPT ![n] = factory]
    /\ IF Len(sub_stack_groups[n]) # 0
       THEN /\ pc' = [m \in Groups |->
                        IF m = n THEN "waiting"
                        ELSE IF m \in Children(n) THEN "called" ELSE pc[m]]
            /\ cmd' = [m \in Groups |-> IF m \in Children(n) THEN cmd[n] ELSE cmd[m]]
            /\ tasks' = [m \in Groups |-> IF m \in Children(n) THEN tasks[m] + 2 ELSE tasks[m]]
       ELSE /\ pc' = [pc EXCEPT ![n] = "local"]
            /\ UNCHANGED <<cmd, tasks>>
    /\ UNCHANGED <<sub_stack_groups, own, processed, err, calls, walkVars, nameVars>>

\* Lines 28-43: a worker (for the root, the caller) starts decorated() on n;
\* responses = factory(); when n has sub-stack_groups a future is submitted
\* for each of them, calling the method named function_name with the same
\* args.
Begin(n) ==
    /\ pc[n] = "called"
    /\ WorkerAvailable(n)
    /\ responses' = [responses EXCEPT ![n] = factory]
    /\ IF Len(sub_stack_groups[n]) # 0
       THEN /\ pc' = [m \in Groups |->
                        IF m = n THEN "waiting"
                        ELSE IF m \in Children(n) THEN "called" ELSE pc[m]]
            /\ cmd' = [m \in Groups |-> IF m \in Children(n) THEN cmd[n] ELSE cmd[m]]
            /\ tasks' = [m \in Groups |->
                            tasks[m] + Cardinality({i \in DOMAIN sub_stack_groups[n] :
                                                        sub_stack_groups[n][i] = m})]
       ELSE /\ pc' = [pc EXCEPT ![n] = "local"]
            /\ UNCHANGED <<cmd, tasks>>
    /\ UNCHANGED <<sub_stack_groups, own, processed, err, calls, walkVars, nameVars>>

\* Mutant of Process: the exception of a child is caught and ignored.
ProcessSwallowing(n, c) ==
    /\ pc[n] = "waiting"
    /\ c \in Children(n) \ Range(processed[n])
    /\ Done(c)
    /\ processed' = [processed EXCEPT ![n] = Append(@, c)]
    /\ responses' = [responses EXCEPT ![n] =
                        IF pc[c] = "returned" THEN Merge(@, Dict(responses[c])) ELSE @]
    /\ pc' = [pc EXCEPT ![n] =
                IF Children(n) \subseteq Range(processed'[n])
                THEN "local" ELSE "waiting"]
    /\ UNCHANGED <<sub_stack_groups, own, calls, err, cmd, tasks, walkVars, nameVars>>

\* Mutant of Process: when a child has raised, the futures that have not
\* started are cancelled (shutdown(cancel_futures=True)).
ProcessCancelling(n, c) ==
    /\ pc[n] = "waiting"
    /\ c \in Children(n) \ Range(processed[n])
    /\ Done(c)
    /\ processed' = [processed EXCEPT ![n] = Append(@, c)]
    /\ IF pc[c] = "returned"
       THEN /\ responses' = [responses EXCEPT ![n] = Merge(@, Dict(responses[c]))]
            /\ pc' = [pc EXCEPT ![n] =
                        IF Children(n) \subseteq Range(processed'[n])
                        THEN "local" ELSE "waiting"]
            /\ err' = err
       ELSE /\ responses' = responses
            /\ pc' = [m \in Groups |->
                        IF m = n THEN "exiting"
                        ELSE IF m \in Children(n) /\ pc[m] = "called" THEN "raised"
                        ELSE pc[m]]
            /\ err' = [err EXCEPT ![n] = err[c]]
    /\ UNCHANGED <<sub_stack_groups, own, calls, cmd, tasks, walkVars, nameVars>>

\* Mutant of Process: the loop goes on after a child has raised and the
\* exception of the last child that raised is raised at its end.
ProcessKeepingLastError(n, c) ==
    /\ pc[n] = "waiting"
    /\ c \in Children(n) \ Range(processed[n])
    /\ Done(c)
    /\ processed' = [processed EXCEPT ![n] = Append(@, c)]
    /\ responses' = [responses EXCEPT ![n] =
                        IF pc[c] = "returned" THEN Merge(@, Dict(responses[c])) ELSE @]
    /\ err' = [err EXCEPT ![n] = IF pc[c] = "raised" THEN err[c] ELSE @]
    /\ pc' = [pc EXCEPT ![n] =
                IF Children(n) \subseteq Range(processed'[n])
                THEN (IF err'[n] # 0 THEN "exiting" ELSE "local")
                ELSE "waiting"]
    /\ UNCHANGED <<sub_stack_groups, own, calls, cmd, tasks, walkVars, nameVars>>

\* Mutant of Process: the loop is left after the first future (a `break`).
ProcessStoppingEarly(n, c) ==
    /\ pc[n] = "waiting"
    /\ c \in Children(n) \ Range(processed[n])
    /\ Done(c)
    /\ processed' = [processed EXCEPT ![n] = Append(@, c)]
    /\ IF pc[c] = "returned"
       THEN /\ responses' = [responses EXCEPT ![n] = Merge(@, Dict(responses[c]))]
            /\ pc' = [pc EXCEPT ![n] = "local"]
            /\ err' = err
       ELSE /\ responses' = responses
            /\ pc' = [pc EXCEPT ![n] = "exiting"]
            /\ err' = [err EXCEPT ![n] = err[c]]
    /\ UNCHANGED <<sub_stack_groups, own, calls, cmd, tasks, walkVars, nameVars>>

\* Lines 44-47: as_completed yields the future of child c, which is done and
\* was not yielded before; future.result() returns the child's responses,
\* which are merged, or raises the child's exception, which leaves the loop
\* and enters ThreadPoolExecutor.__exit__.
Process(n, c) ==
    /\ pc[n] = "waiting"
    /\ c \in Children(n) \ Range(processed[n])
    /\ Done(c)
    /\ processed' = [processed EXCEPT ![n] = Append(@, c)]
    /\ IF pc[c] = "returned"
       THEN /\ responses' = [responses EXCEPT ![n] = Merge(@, Dict(responses[c]))]
            /\ pc' = [pc EXCEPT ![n] =
                        IF Children(n) \subseteq Range(processed'[n])
                        THEN "local" ELSE "waiting"]
            /\ err' = err
       ELSE /\ responses' = responses
            /\ pc' = [pc EXCEPT ![n] = "exiting"]
            /\ err' = [err EXCEPT ![n] = err[c]]
    /\ UNCHANGED <<sub_stack_groups, own, calls, cmd, tasks, walkVars, nameVars>>

\* Mutant of Exit: shutdown(wait=False), the exception leaves at once.
ExitWithoutWaiting(n) ==
    /\ pc[n] = "exiting"
    /\ pc' = [pc EXCEPT ![n] = "raised"]
    /\ UNCHANGED <<sub_stack_groups, responses, own, processed, err, calls, cmd, tasks, walkVars, nameVars>>

\* Lines 34-35: ThreadPoolExecutor.__exit__ is shutdown(wait=True): the
\* exception leaves the with block once every submitted future is done.
Exit(n) ==
    /\ pc[n] = "exiting"
    /\ \A c \in Children(n) : Done(c)
    /\ pc' = [pc EXCEPT ![n] = "raised"]
    /\ UNCHANGED <<sub_stack_groups, responses, own, processed, err, calls, cmd, tasks, walkVars, nameVars>>

\* Mutant of Func: the responses of the parent are shared with the workers,
\* the call on n merges its func's response into them as well.
FuncMergingIntoParent(n, r) ==
    /\ pc[n] = "local"
    /\ calls' = [calls EXCEPT ![n] = @ + 1]
    /\ own' = [own EXCEPT ![n] = r]
    /\ IF r.kind = "raise"
       THEN /\ err' = [err EXCEPT ![n] = n]
            /\ pc' = [pc EXCEPT ![n] = "raised"]
            /\ responses' = responses
       ELSE /\ responses' = [m \in Groups |->
                                IF m = n \/ n \in Children(m)
                                THEN Merge(responses[m], r) ELSE responses[m]]
            /\ pc' = [pc EXCEPT ![n] = "returned"]
            /\ err' = err
    /\ UNCHANGED <<sub_stack_groups, processed, cmd, tasks, walkVars, nameVars>>

\* Lines 49-52: func is invoked on n; it raises, or its response is merged
\* and responses is returned.
Func(n, r) ==
    /\ pc[n] = "local"
    /\ calls' = [calls EXCEPT ![n] = @ + 1]
    /\ own' = [own EXCEPT ![n] = r]
    /\ IF r.kind = "raise"
       THEN /\ err' = [err EXCEPT ![n] = n]
            /\ pc' = [pc EXCEPT ![n] = "raised"]
            /\ responses' = responses
       ELSE /\ responses' = [responses EXCEPT ![n] = Merge(@, r)]
            /\ pc' = [pc EXCEPT ![n] = "returned"]
            /\ err' = err
    /\ UNCHANGED <<sub_stack_groups, processed, cmd, tasks, walkVars, nameVars>>

Next ==
    \/ \E n \in Groups : Begin(n)
    \/ \E n \in Groups : \E c \in Groups : Process(n, c)
    \/ \E n \in Groups : Exit(n)
    \/ \E n \in Groups : \E r \in FuncResults(n) : Func(n, r)

Spec == Init /\ [][Next]_vars

\* Every thread that can take a step does so in the end: the threads of
\* the pools and the caller's thread are scheduled by the operating system.
FairSpec == Spec /\ WF_vars(Next)

\* The call of decorated() on n has returned its responses (line 52).
Returned(n) == pc[n] = "returned"

\* The call of decorated() on n has raised.
HasRaised(n) == pc[n] = "raised"

----
\* Helpers of the properties.

\* The StackGroups of S whose func has returned a dictionary with key k.
Contributors(S, k) == {d \in S : own[d].kind = "map" /\ k \in DOMAIN own[d].map}

\* The funcs of the StackGroups of S have all returned, with pairwise
\* disjoint keys.
DisjointContributions(S) ==
    /\ \A d \in S : own[d].kind \in {"map", "none"}
    /\ \A k \in Keys : Cardinality(Contributors(S, k)) <= 1

\* The union of the dictionaries the funcs of S returned (disjoint keys).
UnionOfContributions(S) ==
    [k \in {j \in Keys : Contributors(S, j) # {}} |->
        LET d == CHOOSE x \in Contributors(S, k) : TRUE IN own[d].map[k]]

\* The number of keys the funcs of S returned, summed.
RECURSIVE SumOfKeyCounts(_)
SumOfKeyCounts(S) ==
    IF S = {} THEN 0
    ELSE LET d == CHOOSE x \in S : TRUE
         IN Cardinality(DOMAIN own[d].map) + SumOfKeyCounts(S \ {d})

\* The StackGroups whose func has raised.
Failed == {d \in Groups : own[d].kind = "raise"}

\* The StackGroups from d up to the root.
PathToRoot(d) == {a \in Groups : a = d \/ IsBelow(d, a)}

\* C1: when the funcs of a StackGroup and of all the StackGroups below it
\* return dictionaries with pairwise disjoint keys, the call on it returns
\* the union of these dictionaries, whatever the order the futures complete
\* in, and its number of keys is the sum of their numbers of keys (no merge
\* has overwritten a key).
FanoutMergeIsUnion ==
    \A n \in Groups :
        Returned(n) =>
            LET below == Subtree(n)
            IN DisjointContributions(below) =>
                /\ responses[n] = UnionOfContributions(below)
                /\ Cardinality(DOMAIN responses[n]) = SumOfKeyCounts(below)

\* A tree in which the root has two children or more and one StackGroup is
\* below a child of the root, every func has returned a dictionary with its
\* own key and the call on the root has returned.
FanoutMergeWitness ==
    /\ Len(sub_stack_groups[Root]) >= 2
    /\ Returned(Root)
    /\ \A d \in Groups : own[d] = Dict([k \in {d} |-> d])
    /\ \E d \in Groups : d # Root /\ Parent(d) # Root
    /\ DOMAIN responses[Root] = Groups

\* C2: when the func of exactly one StackGroup has raised, the call on the
\* root does not return: once it has ended it has raised that exception, as
\* has every call from the failing StackGroup up to the root, none of which
\* has run its func (no retry, no handler); a call returns only when no func
\* below it has raised.
SingleErrorPropagates ==
    /\ \A n \in Groups : Returned(n) => Failed \cap Subtree(n) = {}
    /\ \A f \in Groups :
        (Done(Root) /\ Failed = {f}) =>
            /\ HasRaised(Root)
            /\ \A a \in PathToRoot(f) :
                /\ HasRaised(a)
                /\ err[a] = f
                /\ calls[a] = (IF a = f THEN 1 ELSE 0)

\* The func of one StackGroup two levels or more below the root has raised,
\* no other has, and the call on the root has raised its exception.
SingleErrorWitness ==
    \E f \in Groups :
        /\ f # Root /\ Parent(f) # Root
        /\ Failed = {f}
        /\ HasRaised(Root) /\ err[Root] = f

\* The last element of a non-empty list.
Last(s) == s[Len(s)]

\* The call on n has left its as_completed loop because a child raised.
ChildFailureObserved(n) ==
    processed[n] # <<>> /\ HasRaised(Last(processed[n])) /\ pc[n] \in {"exiting", "raised"}

\* C3 as stated: once the completion of a failed child is processed, the
\* call raises without waiting for the other children: the exception can
\* leave the call in every state in which it is pending.
RaisesWithoutWaiting ==
    \A n \in Groups : pc[n] = "exiting" => ENABLED Exit(n)

\* C3 as amended: the call on a StackGroup stops merging when it processes
\* the completion of a failed child, and raises that child's exception only
\* after every one of its child tasks has ended: in no state has it raised
\* (without running its func) while a child task is still running.
RaisesAfterAllChildrenDone ==
    \A n \in Groups :
        (HasRaised(n) /\ calls[n] = 0) =>
            /\ processed[n] # <<>>
            /\ \A c \in Children(n) : Done(c)
            /\ HasRaised(Last(processed[n]))
            /\ err[n] = err[Last(processed[n])]
            /\ \A i \in 1..(Len(processed[n]) - 1) : Returned(processed[n][i])

\* The call on the root has raised the exception of a child, and another
\* child, whose completion it never processed, has returned.
RaisesAfterAllChildrenDoneWitness ==
    /\ HasRaised(Root) /\ calls[Root] = 0
    /\ \E c \in Children(Root) \ Range(processed[Root]) :
        Returned(c) /\ Children(c) # {}

\* C4: no task is cancelled.  When the call on a StackGroup has raised
\* because a child raised, every task below it has ended by returning or by
\* raising the exception of a func, every StackGroup below it none of whose
\* children raised has run its func once, and the responses of these tasks
\* are in no returned dictionary: a call returns only when every call below
\* it has returned.
NoTaskIsCancelled ==
    /\ \A n \in Groups :
        (HasRaised(n) /\ ChildFailureObserved(n)) =>
            \A d \in Descendants(n) :
                /\ Done(d)
                /\ HasRaised(d) => (err[d] \in Failed)
                /\ (\A c \in Children(d) : Returned(c)) => calls[d] = 1
    /\ \A a \in Groups : Returned(a) => \A d \in Descendants(a) : Returned(d)

\* The call on the root has raised the exception of a child; a sibling of
\* that child, which has a child of its own, has returned after running
\* its func, as has its child; its completion was never processed.
NoTaskIsCancelledWitness ==
    /\ HasRaised(Root) /\ ChildFailureObserved(Root)
    /\ \E s \in Children(Root) \ Range(processed[Root]) :
        /\ Returned(s) /\ calls[s] = 1 /\ DOMAIN responses[s] # {}
        /\ \E g \in Children(s) : Returned(g) /\ calls[g] = 1

\* The func of n has returned a dictionary with key k.
OwnHas(n, k) == own[n].kind = "map" /\ k \in DOMAIN own[n].map

\* The positions in processed[n] of the children that returned key k.
PositionsWith(n, k) ==
    {i \in DOMAIN processed[n] :
        Returned(processed[n][i]) /\ k \in DOMAIN responses[processed[n][i]]}

\* The largest number of a non-empty set of numbers.
Max(S) == CHOOSE x \in S : \A y \in S : y <= x

\* C5: when the call on a StackGroup returns, its func was invoked after the
\* responses of all its children had been merged, and every key of the
\* func's dictionary has the func's value in the returned dictionary, also
\* when a child returned the same key.
LocalResultMergedLast ==
    \A n \in Groups :
        /\ calls[n] >= 1 =>
            (Range(processed[n]) = Children(n) /\ \A c \in Children(n) : Returned(c))
        /\ Returned(n) =>
            \A k \in Keys : OwnHas(n, k) =>
                (k \in DOMAIN responses[n] /\ responses[n][k] = own[n].map[k])

\* The call on a StackGroup has returned; its func and one of its children
\* both returned SharedKey, with different values.
LocalResultMergedLastWitness ==
    \E n \in Groups : \E c \in Children(n) :
        /\ Returned(n) /\ OwnHas(n, SharedKey)
        /\ SharedKey \in DOMAIN responses[c]
        /\ responses[c][SharedKey] # own[n].map[SharedKey]

\* C6 as stated: the func of a StackGroup is run in every call, also when a
\* child has failed: every call that has ended has invoked its func.
LocalAlwaysRun ==
    \A n \in Groups : Done(n) => calls[n] = 1

\* C6 as amended: the func of a StackGroup is invoked, once, when the
\* responses of all its children have been merged, and always when it has no
\* children; when a child has raised, the func is not invoked.
LocalRunUnlessChildFailed ==
    \A n \in Groups :
        /\ calls[n] \in {0, 1}
        /\ calls[n] = 1 => \A c \in Children(n) : Returned(c) /\ c \in Range(processed[n])
        /\ Done(n) =>
            (calls[n] = 1 <=> \A c \in Range(processed[n]) : Returned(c))
        /\ (Done(n) /\ Children(n) = {}) => calls[n] = 1
        /\ pc[n] = "local" => Range(processed[n]) = Children(n)

\* A StackGroup with two children, one of which returned and one of which
\* raised: its call has raised without invoking its func; and a StackGroup
\* without children has invoked its func.
LocalRunUnlessChildFailedWitness ==
    \E n \in Groups : \E c1 \in Children(n) : \E c2 \in Children(n) :
        /\ HasRaised(n) /\ calls[n] = 0
        /\ Returned(c1) /\ HasRaised(c2)
        /\ c1 \in Range(processed[n])
        /\ Children(c1) = {} /\ calls[c1] = 1

\* C7 as stated: the call on a StackGroup without children returns exactly
\* what its func returned, None included.
LeafReturnsFuncResult ==
    \A n \in Groups :
        (Returned(n) /\ Children(n) = {}) => Dict(responses[n]) = own[n]

\* C7 as amended: the call on a StackGroup without children returns a
\* dictionary equal to the one its func returned (empty or not), and an
\* empty dictionary, not None, when its func returned None.
LeafReturnsFuncDictionary ==
    \A n \in Groups :
        (Returned(n) /\ Children(n) = {}) =>
            /\ own[n].kind = "map" => responses[n] = own[n].map
            /\ own[n].kind = "none" => responses[n] = factory
            /\ own[n].kind \in {"map", "none"}

\* Three calls on StackGroups without children have returned in one tree:
\* one whose func returned a non-empty dictionary, one whose func returned
\* an empty one, one whose func returned None.
LeafReturnsFuncDictionaryWitness ==
    \E a \in Groups : \E b \in Groups : \E c \in Groups :
        /\ Children(a) = {} /\ Children(b) = {} /\ Children(c) = {}
        /\ Returned(a) /\ Returned(b) /\ Returned(c)
        /\ own[a].kind = "map" /\ DOMAIN own[a].map = {a, SharedKey}
        /\ own[b] = Dict(factory)
        /\ own[c] = NoneResponse

\* C8: the responses of the children are merged in the order as_completed
\* yields their futures, which need not be the order of sub_stack_groups,
\* and the last merged wins: before the func's response is merged, a key has
\* the value of the child processed last among the children that returned
\* it; in the returned dictionary it has that value unless the func
\* returned the key too.
LastMergedWins ==
    \A n \in Groups :
        (pc[n] \in {"waiting", "local", "exiting"} \/ Returned(n)) =>
            \A k \in Keys :
                (Returned(n) => ~OwnHas(n, k)) =>
                    LET positions == PositionsWith(n, k)
                    IN IF positions = {}
                       THEN k \notin DOMAIN responses[n]
                       ELSE /\ k \in DOMAIN responses[n]
                            /\ responses[n][k] = responses[processed[n][Max(positions)]][k]

\* The call on the root has returned; its second child was processed before
\* its first child, both returned SharedKey, and the returned dictionary has
\* the value of the first child, processed last.
LastMergedWinsWitness ==
    /\ Returned(Root) /\ ~OwnHas(Root, SharedKey)
    /\ Len(processed[Root]) >= 2
    /\ processed[Root][1] = sub_stack_groups[Root][2]
    /\ processed[Root][2] = sub_stack_groups[Root][1]
    /\ PositionsWith(Root, SharedKey) = {1, 2}
    /\ responses[Root][SharedKey] = responses[processed[Root][2]][SharedKey]
    /\ responses[Root][SharedKey] # responses[processed[Root][1]][SharedKey]

\* A response that is None or an empty dictionary.
EmptyOrAbsent(r) == r.kind = "none" \/ (r.kind = "map" /\ DOMAIN r.map = {})

\* In this step the call on n merges a branch whose response is empty or
\* absent: the responses of a child that returned an empty dictionary, or
\* the response of its own func.
EmptyBranchMerged(n) ==
    \/ /\ processed'[n] # processed[n]
       /\ Returned(Last(processed'[n]))
       /\ responses[Last(processed'[n])] = factory
    \/ /\ calls'[n] # calls[n]
       /\ EmptyOrAbsent(own'[n])

\* C9: a child's call or a func that returns an empty dictionary or None
\* contributes nothing: the step that merges it leaves the responses of the
\* merging call as they were; and a call below which every func returned an
\* empty dictionary or None returns an empty dictionary.
EmptyContributesNothing ==
    /\ [][\A n \in Groups : EmptyBranchMerged(n) => responses'[n] = responses[n]]_vars
    /\ [](\A n \in Groups :
            (Returned(n) /\ \A d \in Subtree(n) : EmptyOrAbsent(own[d])) =>
                responses[n] = factory)

\* The call on the root has returned a non-empty dictionary; the child it
\* processed last had returned an empty dictionary and its own func has
\* returned None, after the responses of another child had been merged.
EmptyContributesNothingWitness ==
    /\ Returned(Root) /\ own[Root] = NoneResponse
    /\ Len(processed[Root]) >= 2
    /\ responses[Last(processed[Root])] = factory
    /\ responses[Root] # factory
    /\ responses[Root] = responses[processed[Root][1]]

\* C10: when several funcs fail, the caller sees one exception, that of one
\* func that raised; the call on a StackGroup that raises without running
\* its func raises the exception of the first child, in the order processed,
\* that had raised, and the exceptions of its other children are not
\* reported.
FirstProcessedErrorIsRaised ==
    \A n \in Groups :
        /\ HasRaised(n) => (err[n] \in Failed /\ err[n] \in Subtree(n))
        /\ ~HasRaised(n) /\ pc[n] # "exiting" => err[n] = 0
        /\ (pc[n] \in {"exiting", "raised"} /\ calls[n] = 0) =>
            LET failing == {i \in DOMAIN processed[n] : HasRaised(processed[n][i])}
                first == CHOOSE i \in failing : \A j \in failing : i <= j
            IN /\ failing # {}
               /\ err[n] = err[processed[n][first]]

\* Two children of the root have raised different exceptions; the call on
\* the root has raised the exception of the one it processed, and the one
\* with the other exception was never processed.
FirstProcessedErrorIsRaisedWitness ==
    \E c1 \in Children(Root) : \E c2 \in Children(Root) :
        /\ HasRaised(Root) /\ HasRaised(c1) /\ HasRaised(c2)
        /\ err[c1] # err[c2]
        /\ c1 \in Range(processed[Root]) /\ c2 \notin Range(processed[Root])
        /\ err[Root] = err[c1]
        /\ Cardinality(Failed) >= 2

\* In this step the thread that runs the call on n has merged: it has
\* processed a future or has invoked its func.
MergeStepOf(n) == processed'[n] # processed[n] \/ calls'[n] # calls[n]

\* C11: the merges into one `responses` dictionary never overlap: every
\* step that changes the responses of the call on n is a step of the thread
\* that runs that call (it processes a future or merges its func's
\* response), one merge per step; no other task writes to it.
MergesAreExclusive ==
    [][\A n \in Groups :
            responses'[n] # responses[n] =>
                /\ MergeStepOf(n)
                /\ \A m \in Groups \ {n} : responses'[m] = responses[m]]_vars

\* The call on the root has merged the responses of one child while another
\* child, which returns a non-empty dictionary later, was still running.
MergesAreExclusiveWitness ==
    /\ pc[Root] = "waiting" /\ Len(processed[Root]) = 1
    /\ responses[Root] # factory
    /\ \E c \in Children(Root) : pc[c] = "local"

\* C16: the call on a StackGroup with sub-stack_groups submits exactly one
\* future per sub-stack_group, each with the function_name and the args of
\* the call itself; no func is invoked twice, and when no func has raised
\* and the call on the root has ended, every func was invoked exactly once.
OneTaskPerChild ==
    /\ tasks[Root] = 0
    /\ \A n \in Groups :
        /\ calls[n] <= 1
        /\ \A c \in Children(n) :
            IF pc[n] \in {"idle", "called"}
            THEN tasks[c] = 0 /\ cmd[c] = NoCall
            ELSE tasks[c] = 1 /\ cmd[c] = cmd[n] /\ cmd[c] = Command
    /\ (Done(Root) /\ Failed = {}) => \A n \in Groups : calls[n] = 1

\* The call on the root, which has two sub-stack_groups or more and a
\* StackGroup two levels below, has returned and no func has raised.
OneTaskPerChildWitness ==
    /\ Returned(Root) /\ Failed = {}
    /\ Len(sub_stack_groups[Root]) >= 2
    /\ \E d \in Groups : d # Root /\ Parent(d) # Root
    /\ \A n \in Groups : calls[n] = 1 /\ (n # Root => tasks[n] = 1)

\* No submitted call waits for a worker of its pool.
NoCallWaitsForWorker ==
    \A n \in Groups : pc[n] = "called" => WorkerAvailable(n)

\* A call that cannot take a step is waiting for one of its own children.
BlockedOnlyOnChildren ==
    \A n \in Groups :
        (Running(n) /\ ~ENABLED (\/ \E c \in Groups : Process(n, c)
                                 \/ Exit(n)
                                 \/ \E r \in FuncResults(n) : Func(n, r))) =>
            \E c \in Children(n) : ~Done(c)

\* C17: the call on the root ends (returns or raises) on every tree, every
\* func ending: each pool has a worker for each sub-stack_group, so no
\* submitted call ever waits for a worker, and a call that is blocked is
\* waiting for a child of its own that has not ended.
DispatchTerminates ==
    /\ <>Done(Root)
    /\ []NoCallWaitsForWorker
    /\ []BlockedOnlyOnChildren

\* The call on the root of a tree three levels deep with two children of
\* the root has ended, as has every call below it.
DispatchTerminatesWitness ==
    /\ Done(Root)
    /\ Len(sub_stack_groups[Root]) >= 2
    /\ \E d \in Groups : d # Root /\ Parent(d) # Root
    /\ \A n \in Groups : Done(n)

\* C19: the func of a StackGroup is invoked only when every call below it
\* has ended: it never runs while the func of a StackGroup below it is
\* running or still to run.
LocalAfterAllDescendants ==
    \A n \in Groups :
        (pc[n] = "local" \/ calls[n] >= 1) =>
            \A d \in Descendants(n) : Done(d) /\ pc[d] # "local"

\* A StackGroup with two children or more is about to run its func; every
\* call below it has returned, one of them after another was merged.
LocalAfterAllDescendantsWitness ==
    \E n \in Groups :
        /\ pc[n] = "local" /\ Len(sub_stack_groups[n]) >= 2
        /\ \A d \in Descendants(n) : Returned(d) /\ calls[d] = 1

----
\* get_name_tuple and get_external_stack_name.  A string is a list of
\* characters.

\* Longest project code and stack name.
MaxNameLen == 3

\* The characters of the names: a letter, the slash and the hyphen.
Chars == {"a", "/", "-"}

Strings == UNION {[1..n -> Chars] : n \in 0..MaxNameLen}

\* s.split(sep) for a one-character sep: the pieces between the separators,
\* empty pieces included; the empty string gives one empty piece.
RECURSIVE Split(_, _)
Split(s, sep) ==
    IF \A i \in DOMAIN s : s[i] # sep
    THEN <<s>>
    ELSE LET i == CHOOSE j \in DOMAIN s :
                    s[j] = sep /\ \A k \in 1..(j - 1) : s[k] # sep
         IN <<SubSeq(s, 1, i - 1)>> \o Split(SubSeq(s, i + 1, Len(s)), sep)

\* sep.join(parts)
RECURSIVE Join(_, _)
Join(parts, sep) ==
    IF Len(parts) = 0 THEN <<>>
    ELSE IF Len(parts) = 1 THEN parts[1]
    ELSE parts[1] \o <<sep>> \o Join(Tail(parts), sep)

\* Mutant of Replace: only the first occurrence is replaced
\* (s.replace(old, new, 1)).
ReplaceFirst(s, old, new) ==
    [i \in DOMAIN s |->
        IF s[i] = old /\ \A k \in 1..(i - 1) : s[k] # old THEN new ELSE s[i]]

\* s.replace(old, new) for one-character old and new.
Replace(s, old, new) == [i \in DOMAIN s |-> IF s[i] = old THEN new ELSE s[i]]

\* Line 66: tuple(name.split("/"))
get_name_tuple(name) == Split(name, "/")

\* Lines 80-83: "-".join([project_code, stack_name.replace("/", "-")])
get_external_stack_name(code, name) ==
    Join(<<code, Replace(name, "/", "-")>>, "-")

\* The dispatch and the walk are not in use.
DispatchIdle ==
    /\ sub_stack_groups = <<>> /\ pc = <<>> /\ responses = <<>> /\ own = <<>>
    /\ processed = <<>> /\ err = <<>> /\ calls = <<>> /\ cmd = <<>> /\ tasks = <<>>

WalkIdle ==
    /\ objects = <<>> /\ original = <<>> /\ callback = "none"
    /\ stack = <<>> /\ status = "idle" /\ visits = <<>> /\ walks = <<>>
    /\ result = 0

NameInit ==
    /\ project_code \in Strings
    /\ stack_name \in Strings
    /\ name_tuple = <<>>
    /\ external_name = <<>>
    /\ computed = FALSE
    /\ DispatchIdle
    /\ WalkIdle

\* The two functions are applied to the arguments.
ComputeNames ==
    /\ ~computed
    /\ name_tuple' = get_name_tuple(stack_name)
    /\ external_name' = get_external_stack_name(project_code, stack_name)
    /\ computed' = TRUE
    /\ UNCHANGED <<project_code, stack_name, dispatchVars, walkVars>>

NameNext == ComputeNames

NameSpec == NameInit /\ [][NameNext]_vars

\* C15: get_external_stack_name(p, n) is p followed by the components of
\* get_name_tuple(n), the pieces of n between its slashes, joined with "-";
\* what follows p and the first "-" in it has no "/".
ExternalNameJoinsNameTuple ==
    computed =>
        /\ external_name = Join(<<project_code>> \o name_tuple, "-")
        /\ Join(name_tuple, "/") = stack_name
        /\ \A i \in 1..Len(name_tuple) : \A j \in DOMAIN name_tuple[i] : name_tuple[i][j] # "/"
        /\ Len(external_name) = Len(project_code) + 1 + Len(stack_name)
        /\ \A i \in (Len(project_code) + 2)..Len(external_name) : external_name[i] # "/"

\* The names of a stack two levels deep ("a/a" with project code "a") have
\* been computed: the tuple has two components and the name is "a-a-a".
ExternalNameWitness ==
    /\ computed
    /\ project_code = <<"a">>
    /\ stack_name = <<"a", "/", "a">>
    /\ name_tuple = << <<"a">>, <<"a">> >>
    /\ external_name = <<"a", "-", "a", "-", "a">>

----
\* _call_func_on_values(func, attr, cls).  The dictionaries and lists are
\* objects 1..n with an identity; object Top is the attr of the outermost
\* call.  A value is plain (neither an instance of cls nor a dictionary or
\* list), an instance of cls that is no dictionary or list, or a dictionary
\* or list, given by its identity; a dictionary or list may itself be an
\* instance of cls (its `target` flag).

\* Largest number of dictionaries and lists in a structure.
MaxObjects == 3
\* Largest number of values stored in a structure, all containers together.
MaxCells == 3

\* The depth of nested calls at which the interpreter raises RecursionError
\* (sys.getrecursionlimit()), scaled to the model: deeper than any structure
\* of the model without a cycle nests.
RecursionLimit == MaxObjects + 2

Top == 1

PlainValue == [type |-> "plain", ref |-> 0]
TargetValue == [type |-> "target", ref |-> 0]
Container(j) == [type |-> "container", ref |-> j]
\* The instance of cls that is used as a key of dictionaries, were it
\* taken for a value.
KeyObject == [type |-> "target", ref |-> -1]
\* What the callbacks store: a plain value Y, another instance of cls, the
\* outermost dictionary or list.
StoredPlain == [type |-> "plain", ref |-> 1]
StoredTarget == [type |-> "target", ref |-> 1]
StoredContainer == Container(Top)

\* The keys: the index of a list (from 0), a string, an instance of cls.
ListKey(i) == [kind |-> "index", id |-> i]
StrKey(i) == [kind |-> "str", id |-> i]
TargetKey == [kind |-> "target", id |-> 0]

\* The keys of a container of len values, in the order of iteration; with
\* target_keys the first key of a dictionary is an instance of cls.
KeysOf(kind, target_keys, len) ==
    [i \in 1..len |->
        IF kind = "list" THEN ListKey(i - 1)
        ELSE IF target_keys /\ i = 1 THEN TargetKey ELSE StrKey(i)]

\* What func(attr, key, value) does: nothing, or attr[key] = a value.
Callbacks == {"noop", "store_plain", "store_target", "store_container"}

Stored(cb) ==
    IF cb = "store_plain" THEN StoredPlain
    ELSE IF cb = "store_target" THEN StoredTarget
    ELSE StoredContainer

RECURSIVE SumTo(_, _)
SumTo(lens, i) == IF i = 0 THEN 0 ELSE lens[i] + SumTo(lens, i - 1)

\* The values of object i, cut out of the values of all objects in a row.
ValuesOf(lens, flat, i) == [k \in 1..lens[i] |-> flat[SumTo(lens, i - 1) + k]]

\* The objects are numbered in the order a scan from Top first meets them,
\* so that every object is reachable from Top and every structure is there
\* once.
CanonicalNumbering(n, lens, flat) ==
    \A j \in 2..n :
        LET refs == {p \in DOMAIN flat : flat[p] = Container(j)}
            first == CHOOSE p \in refs : \A q \in refs : p <= q
        IN /\ refs # {}
           /\ first <= SumTo(lens, j - 1)
           /\ \A p \in 1..(first - 1) :
                flat[p].type = "container" => flat[p].ref < j

WalkInit ==
    /\ \E n \in 1..MaxObjects :
        \E lens \in {l \in [1..n -> 0..MaxCells] : SumTo(l, n) <= MaxCells} :
            \E flat \in [1..SumTo(lens, n) ->
                            {PlainValue, TargetValue} \cup {Container(j) : j \in 1..n}] :
                /\ CanonicalNumbering(n, lens, flat)
                /\ \E kinds \in [1..n -> {"dict", "list"}] :
                    \E flags \in [1..n -> BOOLEAN] :
                        \E target_keys \in BOOLEAN :
                            /\ ~flags[Top]
                            /\ objects =
                                [i \in 1..n |->
                                    [kind |-> kinds[i],
                                     target |-> flags[i],
                                     keys |-> KeysOf(kinds[i], target_keys, lens[i]),
                                     vals |-> ValuesOf(lens, flat, i)]]
    /\ original = objects
    /\ callback \in Callbacks
    /\ stack = <<[obj |-> Top, pos |-> 1]>>
    /\ status = "walking"
    /\ visits = <<>>
    /\ walks = [i \in DOMAIN objects |-> IF i = Top THEN 1 ELSE 0]
    /\ result = 0
    /\ DispatchIdle
    /\ project_code = <<>> /\ stack_name = <<>>
    /\ name_tuple = <<>> /\ external_name = <<>> /\ computed = FALSE

\* The innermost call of _call_func_on_values, its attr, and where its
\* loop is.
Frame == stack[Len(stack)]
Attr == objects[Frame.obj]
AtItem == status = "walking" /\ Frame.pos <= Len(Attr.vals)

\* Mutant of ItemValue: the keys of a dictionary are looked at as well, an
\* instance of cls used as a key is taken for the value.
ItemValueOrKey(attr, pos) ==
    IF attr.keys[pos] = TargetKey THEN KeyObject ELSE attr.vals[pos]

\* Lines 125 and 128: the loop variable `value` of attr.items() and of
\* enumerate(attr).
ItemValue(attr, pos) == attr.vals[pos]

\* Line 119: isinstance(value, cls)
IsInstanceOfCls(value) ==
    \/ value.type = "target"
    \/ value.type = "container" /\ objects[value.ref].target

\* Mutant of IsListOrDict: only lists are searched.
IsListOnly(value) ==
    value.type = "container" /\ objects[value.ref].kind = "list"

\* Line 121: isinstance(value, list) or isinstance(value, dict)
IsListOrDict(value) == value.type = "container"

\* The positions of the loops of the calls in progress: where in the
\* structure the innermost loop is.
CurrentPath == [i \in 1..Len(stack) |-> stack[i].pos]

\* The loop of the innermost call goes on to its next item.
Advance == [stack EXCEPT ![Len(stack)].pos = @ + 1]

\* Mutant of WalkVisit: after func the same item is looked at again.
WalkVisitAgain ==
    /\ AtItem
    /\ IsInstanceOfCls(ItemValue(Attr, Frame.pos))
    /\ visits' = Append(visits,
                    [obj |-> Frame.obj, key |-> Attr.keys[Frame.pos],
                     value |-> ItemValue(Attr, Frame.pos), path |-> CurrentPath])
    /\ objects' = IF callback = "noop" THEN objects
                  ELSE [objects EXCEPT ![Frame.obj].vals[Frame.pos] = Stored(callback)]
    /\ Len(visits) <= MaxCells
    /\ UNCHANGED <<stack, original, callback, status, walks, result, dispatchVars, nameVars>>

\* Lines 119-120: the value is an instance of cls: func(attr, key, value),
\* which may store a value at attr[key].
WalkVisit ==
    /\ AtItem
    /\ IsInstanceOfCls(ItemValue(Attr, Frame.pos))
    /\ visits' = Append(visits,
                    [obj |-> Frame.obj, key |-> Attr.keys[Frame.pos],
                     value |-> ItemValue(Attr, Frame.pos), path |-> CurrentPath])
    /\ objects' = IF callback = "noop" THEN objects
                  ELSE [objects EXCEPT ![Frame.obj].vals[Frame.pos] = Stored(callback)]
    /\ stack' = Advance
    /\ UNCHANGED <<original, callback, status, walks, result, dispatchVars, nameVars>>

\* Mutant of WalkRecurse: a dictionary or list that was walked is not
\* walked again.
WalkRecurseOnce ==
    /\ AtItem
    /\ ~IsInstanceOfCls(ItemValue(Attr, Frame.pos))
    /\ IsListOrDict(ItemValue(Attr, Frame.pos))
    /\ Len(stack) < RecursionLimit
    /\ LET j == ItemValue(Attr, Frame.pos).ref
       IN IF walks[j] >= 1
          THEN stack' = Advance /\ walks' = walks
          ELSE /\ stack' = Append(stack, [obj |-> j, pos |-> 1])
               /\ walks' = [walks EXCEPT ![j] = @ + 1]
    /\ UNCHANGED <<objects, original, callback, status, visits, result, dispatchVars, nameVars>>

\* Lines 121-122: the value is a list or a dictionary and no instance of
\* cls: _call_func_on_values is called on it.
WalkRecurse ==
    /\ AtItem
    /\ ~IsInstanceOfCls(ItemValue(Attr, Frame.pos))
    /\ IsListOrDict(ItemValue(Attr, Frame.pos))
    /\ Len(stack) < RecursionLimit
    /\ LET j == ItemValue(Attr, Frame.pos).ref
       IN /\ stack' = Append(stack, [obj |-> j, pos |-> 1])
          /\ walks' = [walks EXCEPT ![j] = @ + 1]
    /\ UNCHANGED <<objects, original, callback, status, visits, result, dispatchVars, nameVars>>

\* Line 122, when the calls are nested as deep as the interpreter allows:
\* RecursionError is raised and leaves every call.
WalkRecursionError ==
    /\ AtItem
    /\ ~IsInstanceOfCls(ItemValue(Attr, Frame.pos))
    /\ IsListOrDict(ItemValue(Attr, Frame.pos))
    /\ Len(stack) >= RecursionLimit
    /\ status' = "recursion_error"
    /\ stack' = <<>>
    /\ UNCHANGED <<objects, original, callback, visits, walks, result, dispatchVars, nameVars>>

\* Mutant of WalkSkip: the result of func_on_instance, None, is stored at
\* attr[key].
WalkSkipStoring ==
    /\ AtItem
    /\ ~IsInstanceOfCls(ItemValue(Attr, Frame.pos))
    /\ ~IsListOrDict(ItemValue(Attr, Frame.pos))
    /\ stack' = Advance
    /\ objects' = [objects EXCEPT ![Frame.obj].vals[Frame.pos] = StoredPlain]
    /\ UNCHANGED <<original, callback, status, visits, walks, result, dispatchVars, nameVars>>

\* Lines 119-122, neither branch: the value is ignored.
WalkSkip ==
    /\ AtItem
    /\ ~IsInstanceOfCls(ItemValue(Attr, Frame.pos))
    /\ ~IsListOrDict(ItemValue(Attr, Frame.pos))
    /\ stack' = Advance
    /\ UNCHANGED <<objects, original, callback, status, visits, walks, result, dispatchVars, nameVars>>

\* Line 130: the loop of the innermost call is over, the call returns attr;
\* the caller's loop goes on (the value returned to line 122 is dropped).
WalkReturn ==
    /\ status = "walking"
    /\ Frame.pos > Len(Attr.vals)
    /\ IF Len(stack) = 1
       THEN /\ status' = "returned"
            /\ result' = Frame.obj
            /\ stack' = <<>>
       ELSE /\ stack' = [SubSeq(stack, 1, Len(stack) - 1)
                            EXCEPT ![Len(stack) - 1].pos = @ + 1]
            /\ UNCHANGED <<status, result>>
    /\ UNCHANGED <<objects, original, callback, visits, walks, dispatchVars, nameVars>>

WalkNext ==
    \/ WalkVisit
    \/ WalkRecurse
    \/ WalkRecursionError
    \/ WalkSkip
    \/ WalkReturn

\* The walk runs on one thread, which goes on until the call ends.
WalkSpec == WalkInit /\ [][WalkNext]_vars /\ WF_vars(WalkNext)

----
\* The properties of _call_func_on_values.

\* The containers that container o of objs refers to.
RefsOf(objs, o) ==
    {objs[o].vals[k].ref :
        k \in {q \in DOMAIN objs[o].vals : objs[o].vals[q].type = "container"}}

\* The containers reached from the set S of containers in at most k steps.
RECURSIVE ReachedFrom(_, _, _)
ReachedFrom(objs, S, k) ==
    IF k = 0 THEN S
    ELSE ReachedFrom(objs, S \cup UNION {RefsOf(objs, o) : o \in S}, k - 1)

\* No container of objs contains itself, directly or through others.
Acyclic(objs) ==
    \A o \in DOMAIN objs :
        o \notin ReachedFrom(objs, RefsOf(objs, o), Len(objs))

\* The number of places of objs that refer to container j.
RefCount(objs, j) ==
    Cardinality({<<o, k>> \in (DOMAIN objs) \X (1..MaxCells) :
                    /\ k \in DOMAIN objs[o].vals
                    /\ objs[o].vals[k] = Container(j)})

\* Every container but Top is referred to from one place, Top from none.
NoSharing(objs) ==
    \A j \in DOMAIN objs : RefCount(objs, j) = IF j = Top THEN 0 ELSE 1

\* Is the value an instance of cls, in objs?
TargetKind(objs, value) ==
    \/ value.type = "target"
    \/ value.type = "container" /\ objs[value.ref].target

\* The container that holds the place at the end of the path, which gives
\* the position in Top, then in the container stored there, and so on; 0 if
\* there is no such place.  The path leads through no dictionary or list
\* that is itself an instance of cls: such a one counts as a value.
RECURSIVE ContainerAt(_, _, _)
ContainerAt(objs, o, path) ==
    IF path[1] \notin DOMAIN objs[o].vals THEN 0
    ELSE IF Len(path) = 1 THEN o
    ELSE LET value == objs[o].vals[path[1]]
         IN IF /\ value.type = "container"
               /\ ~objs[value.ref].target
            THEN ContainerAt(objs, value.ref, Tail(path))
            ELSE 0

Paths == UNION {[1..d -> 1..MaxCells] : d \in 1..MaxObjects}

\* The occurrences of instances of cls in objs: the paths from Top to a
\* place that holds one.
Occurrences(objs) ==
    {p \in Paths :
        LET o == ContainerAt(objs, Top, p)
        IN /\ o # 0
           /\ TargetKind(objs, objs[o].vals[p[Len(p)]])}

\* objs with a plain value Y stored at every occurrence of an instance of cls.
Replaced(objs) ==
    [o \in DOMAIN objs |->
        [objs[o] EXCEPT !.vals =
            [k \in DOMAIN objs[o].vals |->
                IF /\ TargetKind(objs, objs[o].vals[k])
                   /\ \E p \in Occurrences(objs) :
                        /\ p[Len(p)] = k
                        /\ ContainerAt(objs, Top, p) = o
                THEN StoredPlain
                ELSE objs[o].vals[k]]]]

\* The structures objs and expected, seen from Top, are equal.
SameStructure(objs, expected) ==
    \A o \in ReachedFrom(expected, {Top}, Len(expected)) : objs[o] = expected[o]

\* func was called once for every occurrence of the set, with the container,
\* the key or index and the value of the occurrence in the original
\* structure.
CalledOncePerOccurrence(occurrences) ==
    /\ Len(visits) = Cardinality(occurrences)
    /\ {visits[i].path : i \in DOMAIN visits} = occurrences
    /\ \A i \in DOMAIN visits :
        LET p == visits[i].path
            o == ContainerAt(original, Top, p)
        IN /\ o # 0
           /\ visits[i].obj = o
           /\ visits[i].key = original[o].keys[p[Len(p)]]
           /\ visits[i].value = original[o].vals[p[Len(p)]]

\* The statement of C12 as it is worded: on every structure without a
\* cycle, func is called exactly once for each occurrence of an instance of
\* cls, and with a func that stores Y the structure ends as the original
\* with Y at every occurrence.
CalledOncePerOccurrenceAlways ==
    status = "returned" /\ Acyclic(original) =>
        /\ CalledOncePerOccurrence(Occurrences(original))
        /\ callback = "store_plain" =>
                SameStructure(objects, Replaced(original))

\* C12: on a structure without a cycle, when func changes nothing or no
\* dictionary or list is referred to from two places, func is called exactly
\* once for each occurrence of an instance of cls that does not lie inside
\* a dictionary or list that is itself an instance of cls, with the exact
\* container, the key or index and the value of the occurrence; and when
\* func stores Y at each of them, the structure ends as the original with Y
\* at every such occurrence and everything else unchanged.
CalledOncePerWalkedOccurrence ==
    /\ status = "returned"
    /\ Acyclic(original)
    /\ callback = "noop" \/ NoSharing(original)
    => /\ CalledOncePerOccurrence(Occurrences(original))
       /\ callback = "store_plain" =>
                /\ SameStructure(objects, Replaced(original))
                /\ \A o \in DOMAIN objects :
                    \A k \in DOMAIN objects[o].vals :
                        objects[o].vals[k] # original[o].vals[k] =>
                            /\ original[o].vals[k].type # "plain"
                            /\ objects[o].vals[k] = StoredPlain

\* func stored Y at an occurrence in Top and at one in a dictionary
\* nested in it.
CalledOncePerWalkedOccurrenceWitness ==
    /\ status = "returned"
    /\ NoSharing(original)
    /\ callback = "store_plain"
    /\ \E i, j \in DOMAIN visits :
        /\ Len(visits[i].path) = 1
        /\ Len(visits[j].path) = 2
        /\ original[visits[j].obj].kind = "dict"
        /\ visits[j].key.kind = "str"
        /\ objects[visits[j].obj].vals[visits[j].path[2]] = StoredPlain

\* No value stored in the structure is an instance of cls.
NoTargetValue(objs) ==
    \A o \in DOMAIN objs :
        \A k \in DOMAIN objs[o].vals : ~TargetKind(objs, objs[o].vals[k])

\* C13: func is never called for an object used as a key of a dictionary,
\* only for the values stored under the keys (a key, being hashable, is no
\* dictionary or list to walk into): when instances of cls occur only as
\* keys, func is not called at all.
KeysAreNotVisited ==
    /\ \A i \in DOMAIN visits :
        /\ visits[i].value # KeyObject
        /\ \E k \in DOMAIN original[visits[i].obj].vals :
            /\ original[visits[i].obj].keys[k] = visits[i].key
            /\ visits[i].value \in
                    {original[visits[i].obj].vals[k], Stored(callback)}
    /\ NoTargetValue(original) => visits = <<>>

\* A dictionary with an instance of cls as a key and none as a value was
\* walked to its end, and func was not called.
KeysAreNotVisitedWitness ==
    /\ status = "returned"
    /\ visits = <<>>
    /\ NoTargetValue(original)
    /\ \E o \in DOMAIN original :
        /\ walks[o] >= 1
        /\ original[o].kind = "dict"
        /\ \E k \in DOMAIN original[o].keys : original[o].keys[k] = TargetKey

\* The values that are neither instances of cls nor dictionaries or lists
\* are left as they are and are never passed to func.
PlainValuesIgnored ==
    /\ \A i \in DOMAIN visits : visits[i].value.type # "plain"
    /\ \A o \in DOMAIN original :
        \A k \in DOMAIN original[o].vals :
            original[o].vals[k].type = "plain" =>
                objects[o].vals[k] = original[o].vals[k]

\* A step that changes the structure is a call of func, and the change is
\* what func stores at the place it is called for.
OnlyFuncChanges ==
    objects' # objects =>
        /\ callback # "noop"
        /\ Len(visits') = Len(visits) + 1
        /\ LET visit == visits'[Len(visits')]
           IN objects' = [objects EXCEPT
                            ![visit.obj].vals[visit.path[Len(visit.path)]] =
                                Stored(callback)]

\* C14: the walk returns the container it was given, and it changes nothing
\* itself: every change of the structure is one func makes, with a func
\* that changes nothing the structure stays as it was, and plain values are
\* ignored.
WalkReturnsAttrUnchanged ==
    /\ [](status = "returned" => result = Top)
    /\ [](callback = "noop" => objects = original)
    /\ []PlainValuesIgnored
    /\ [][OnlyFuncChanges]_vars

\* A walk with a func that changes nothing has returned after calling func
\* in a nested container and passing by a plain value.
WalkReturnsAttrUnchangedWitness ==
    /\ status = "returned"
    /\ result = Top
    /\ callback = "noop"
    /\ objects = original
    /\ \E i \in DOMAIN visits : Len(visits[i].path) >= 2
    /\ \E o \in DOMAIN original :
        /\ walks[o] >= 1
        /\ \E k \in DOMAIN original[o].vals : original[o].vals[k] = PlainValue

\* The path of the place through which the call of frame d was entered.
EntryPath(d) == SubSeq(CurrentPath, 1, d - 1)

\* C20: the test for cls comes before the test for list and dict: a
\* dictionary or list that is an instance of cls is passed to func and never
\* walked; what func stores at a place is, at that place, neither passed to
\* func nor walked into; and func is called at most once for a place (a key
\* or index of an occurrence of a container).
MatchBeforeRecursion ==
    /\ \A j \in DOMAIN objects : objects[j].target => walks[j] = 0
    /\ \A d \in DOMAIN stack : ~objects[stack[d].obj].target
    /\ \A i \in DOMAIN visits :
        visits[i].value.type = "container" => objects[visits[i].value.ref].target
    /\ \A i, j \in DOMAIN visits : i # j => visits[i].path # visits[j].path
    /\ \A i \in DOMAIN visits :
        /\ \A d \in 2..Len(stack) : EntryPath(d) # visits[i].path
        /\ status = "walking" /\ Len(visits[i].path) = Len(stack)
           /\ EntryPath(Len(stack)) = SubSeq(visits[i].path, 1, Len(stack) - 1)
           => Frame.pos > visits[i].path[Len(stack)]

\* func was called for a list or dictionary that is an instance of cls and
\* stored the outermost container in its place; the walk returned without
\* walking either there.
MatchBeforeRecursionWitness ==
    /\ status = "returned"
    /\ callback = "store_container"
    /\ \E i \in DOMAIN visits :
        /\ visits[i].value.type = "container"
        /\ walks[visits[i].value.ref] = 0
        /\ objects[visits[i].obj].vals[visits[i].path[Len(visits[i].path)]]
                = StoredContainer
    /\ walks[Top] = 1

\* The containers that container o refers to and that are walked into from
\* it: those that are no instances of cls.
WalkedRefsOf(objs, o) == {j \in RefsOf(objs, o) : ~objs[j].target}

RECURSIVE WalkedFrom(_, _, _)
WalkedFrom(objs, S, k) ==
    IF k = 0 THEN S
    ELSE WalkedFrom(objs, S \cup UNION {WalkedRefsOf(objs, o) : o \in S}, k - 1)

\* A container that the walk from Top walks into contains itself through
\* containers that are walked into.
WalkableCycle(objs) ==
    \E o \in WalkedFrom(objs, {Top}, Len(objs)) :
        o \in WalkedFrom(objs, WalkedRefsOf(objs, o), Len(objs))

\* The number of occurrences of container j in objs: the paths from Top to
\* a place that refers to it; Top has one more, as the argument of the call.
OccurrencesOf(objs, j) ==
    Cardinality({p \in Paths :
                    LET o == ContainerAt(objs, Top, p)
                    IN o # 0 /\ objs[o].vals[p[Len(p)]] = Container(j)})
    + IF j = Top THEN 1 ELSE 0

\* The number of calls of func with container j.
VisitsIn(j) == Cardinality({i \in DOMAIN visits : visits[i].obj = j})

\* The number of instances of cls stored in container j of objs.
TargetsIn(objs, j) ==
    Cardinality({k \in DOMAIN objs[j].vals : TargetKind(objs, objs[j].vals[k])})

\* A call on an empty container returns at once: its next step ends it,
\* without a call of func and without another walk.
EmptyReturnsAtOnce ==
    status = "walking" /\ Len(Attr.vals) = 0 =>
        /\ Len(stack') = Len(stack) - 1
        /\ visits' = visits
        /\ walks' = walks
        /\ objects' = objects

\* Every container that is no instance of cls was walked once for each of
\* its occurrences.
WalkedOncePerOccurrence ==
    \A j \in DOMAIN original :
        ~original[j].target => walks[j] = OccurrencesOf(original, j)

\* The statement of C18 as it is worded: the walk of a structure without a
\* cycle returns, at once on an empty container, having walked every
\* container once per occurrence and called func there each time for the
\* instances of cls in it; the walk of a structure with a cycle never ends.
WalkEndsUnlessCyclic ==
    /\ Acyclic(original) /\ callback # "store_container" => <>(status = "returned")
    /\ [][EmptyReturnsAtOnce]_vars
    /\ [](status = "returned" /\ Acyclic(original) /\ callback # "store_container"
            => /\ WalkedOncePerOccurrence
               /\ \A j \in DOMAIN original :
                    VisitsIn(j) = walks[j] * TargetsIn(original, j))
    /\ ~Acyclic(original) => [](status = "walking")

\* C18: the walk of a structure without a cycle returns (func storing no
\* container), at once on an empty container, having walked every container
\* that is no instance of cls once per occurrence, without memoization; func
\* is called on every one of these walks for the instances of cls in the
\* container when it leaves them or stores instances of cls, and on the
\* first walk only when it stores a plain value.  The walk of a structure
\* in which a walked container contains itself through walked containers
\* never returns: the calls nest until RecursionError is raised.  A cycle
\* that leads only through instances of cls is not walked.
WalkEndsOrOverflows ==
    /\ ~WalkableCycle(original) /\ callback # "store_container"
            => <>(status = "returned")
    /\ [][EmptyReturnsAtOnce]_vars
    /\ [](status = "returned" /\ Acyclic(original) /\ callback # "store_container"
            => /\ WalkedOncePerOccurrence
               /\ \A j \in DOMAIN original :
                    VisitsIn(j) =
                        IF callback = "store_plain"
                        THEN (IF walks[j] >= 1 THEN TargetsIn(original, j) ELSE 0)
                        ELSE walks[j] * TargetsIn(original, j))
    /\ WalkableCycle(original)
            => [](status # "returned") /\ <>(status = "recursion_error")

\* The walk has returned from a structure in which a list with an instance
\* of cls occurs twice: the list was walked twice and func called twice.
WalkEndsOrOverflowsWitness ==
    /\ status = "returned"
    /\ callback = "noop"
    /\ Acyclic(original)
    /\ \E j \in DOMAIN original :
        /\ RefCount(original, j) = 2
        /\ walks[j] = 2
        /\ TargetsIn(original, j) = 1
        /\ VisitsIn(j) = 2

====
